---- MODULE Spec2Model ----
(***************************************************************************)
(* Cellule Dashboard (src/app.py): the SQLite data layer and the handlers  *)
(* of the Streamlit pages that write to it.                                *)
(*                                                                         *)
(* Every call of execute() opens a connection, runs one statement, commits *)
(* and closes, and every CREATE TABLE of init_db() is committed on its own *)
(* as well, so one step of the model is one committed statement.  A script *)
(* run that executes several statements (reset, init_db) is a sequence of  *)
(* steps, and the process can be interrupted between two of them.          *)
(***************************************************************************)
EXTENDS Integers, Sequences, FiniteSets, TLC

VARIABLES
    pc,               \* the statement the running script will execute next
    tables,           \* names of the tables that exist in the database file
    sqlite_sequence,  \* AUTOINCREMENT counter of each table (0: no entry)
    members,          \* rows of table members
    attendance,       \* rows of table attendance
    prayers,          \* rows of table prayers
    today,            \* the calendar day (day number) of the wall clock
    tod,              \* time of day of the wall clock: 0 is midnight sharp
    submitted,        \* widget values of the form or button being handled
    msg,              \* last st.success / st.warning text shown
    metric,           \* "Taux de présence (30j)" as last rendered
    issued            \* history: ids handed out so far, per table

vars == <<pc, tables, sqlite_sequence, members, attendance, prayers,
          today, tod, submitted, msg, metric, issued>>

db == <<tables, sqlite_sequence, members, attendance, prayers>>

----------------------------------------------------------------------------
(* Bounds of the model *)

MaxRows == 2
MaxDay == 1

(* The window of the attendance rate, in days *)
WindowDays == 30

TableNames == {"members", "attendance", "prayers"}

----------------------------------------------------------------------------
(* Text: str.strip() and str.upper() on strings given as character tuples *)

Whitespace == {" ", "\t", "\n"}

UpperChar(c) ==
    CASE c = "c" -> "C" [] c = "o" -> "O" [] c = "n" -> "N" [] c = "f" -> "F"
      [] c = "i" -> "I" [] c = "r" -> "R" [] c = "m" -> "M" [] c = "e" -> "E"
      [] c = "x" -> "X" [] OTHER -> c

upper(s) == [k \in 1..Len(s) |-> UpperChar(s[k])]

RECURSIVE lstrip(_)
lstrip(s) == IF s # <<>> /\ Head(s) \in Whitespace THEN lstrip(Tail(s)) ELSE s

RECURSIVE rstrip(_)
rstrip(s) ==
    IF s # <<>> /\ s[Len(s)] \in Whitespace
    THEN rstrip(SubSeq(s, 1, Len(s) - 1)) ELSE s

strip(s) == rstrip(lstrip(s))

CONFIRMER == <<"C", "O", "N", "F", "I", "R", "M", "E", "R">>
----------------------------------------------------------------------------
(* Control state of the running script *)

Idle == [run |-> "page", at |-> "idle"]

CreateStmt == [members |-> "create_members", attendance |-> "create_attendance",
               prayers |-> "create_prayers"]

DropStmt == [members |-> "drop_members", attendance |-> "drop_attendance",
             prayers |-> "drop_prayers"]

(* Widgets: the values read by the handler that ran last *)
NoWidgets ==
    [form |-> "", name |-> "", member |-> 0, present |-> FALSE,
     requester |-> "", content |-> "", prayer_id |-> 0, status |-> "",
     confirm |-> <<>>]

----------------------------------------------------------------------------
(* Storage: SQLite as the statements of app.py use it *)

Ids(rows) == {r.id : r \in rows}

Max(S) == CHOOSE x \in S : \A y \in S : y <= x

(* The model's bound: the database holds at most MaxRows rows *)
Room == Cardinality(members) + Cardinality(attendance) + Cardinality(prayers) < MaxRows

Rows(t) ==
    CASE t = "members" -> members
      [] t = "attendance" -> attendance
      [] t = "prayers" -> prayers

(* Variant: the counter is read and not advanced *)
autoincrement_NoIncrement(t) == Max({sqlite_sequence[t]} \cup Ids(Rows(t)))

(* INTEGER PRIMARY KEY AUTOINCREMENT: one more than the largest id the table
   has ever held, which sqlite_sequence remembers *)
autoincrement(t) == Max({sqlite_sequence[t]} \cup Ids(Rows(t))) + 1

(* Variant: the table is created anew, whether it exists or not *)
create_table_Recreate(t) ==
    /\ tables' = tables \cup {t}
    /\ sqlite_sequence' = [sqlite_sequence EXCEPT ![t] = 0]
    /\ members' = IF t = "members" THEN {} ELSE members
    /\ attendance' = IF t = "attendance" THEN {} ELSE attendance
    /\ prayers' = IF t = "prayers" THEN {} ELSE prayers

(* CREATE TABLE IF NOT EXISTS t: an existing table and its rows are kept *)
create_table_if_not_exists(t) ==
    /\ tables' = tables \cup {t}
    /\ UNCHANGED <<sqlite_sequence, members, attendance, prayers>>

(* DROP TABLE IF EXISTS t: the rows go, and so does the table's entry in
   sqlite_sequence *)
drop_table_if_exists(t) ==
    /\ tables' = tables \ {t}
    /\ sqlite_sequence' = [sqlite_sequence EXCEPT ![t] = 0]
    /\ members' = IF t = "members" THEN {} ELSE members
    /\ attendance' = IF t = "attendance" THEN {} ELSE attendance
    /\ prayers' = IF t = "prayers" THEN {} ELSE prayers

----------------------------------------------------------------------------
(* Core actions *)

add_member(name, phone, email, role) ==
    LET id == autoincrement("members") IN
    /\ "members" \in tables
    /\ members' = members \cup
          {[id |-> id, name |-> name, phone |-> phone, email |-> email,
            role |-> role, joined |-> today]}
    /\ sqlite_sequence' = [sqlite_sequence EXCEPT !["members"] = id]
    /\ issued' = [issued EXCEPT !["members"] = @ \cup {id}]
    /\ UNCHANGED <<tables, attendance, prayers>>

add_attendance(member_id, attend_date, present, note) ==
    LET id == autoincrement("attendance") IN
    /\ "attendance" \in tables
    /\ attendance' = attendance \cup
          {[id |-> id, member_id |-> member_id, attend_date |-> attend_date,
            present |-> IF present THEN 1 ELSE 0, note |-> note]}
    /\ sqlite_sequence' = [sqlite_sequence EXCEPT !["attendance"] = id]
    /\ issued' = [issued EXCEPT !["attendance"] = @ \cup {id}]
    /\ UNCHANGED <<tables, members, prayers>>

(* Variant: a blank requester is stored as "Anonyme" *)
add_prayer_DefaultAnonyme(requester, content) ==
    LET id == autoincrement("prayers") IN
    /\ "prayers" \in tables
    /\ prayers' = prayers \cup
          {[id |-> id, requester |-> IF requester = "" THEN "Anonyme" ELSE requester,
            content |-> content, created |-> today, status |-> "open"]}
    /\ sqlite_sequence' = [sqlite_sequence EXCEPT !["prayers"] = id]
    /\ issued' = [issued EXCEPT !["prayers"] = @ \cup {id}]
    /\ UNCHANGED <<tables, members, attendance>>

add_prayer(requester, content) ==
    LET id == autoincrement("prayers") IN
    /\ "prayers" \in tables
    /\ prayers' = prayers \cup
          {[id |-> id, requester |-> requester, content |-> content,
            created |-> today, status |-> "open"]}
    /\ sqlite_sequence' = [sqlite_sequence EXCEPT !["prayers"] = id]
    /\ issued' = [issued EXCEPT !["prayers"] = @ \cup {id}]
    /\ UNCHANGED <<tables, members, attendance>>

(* Variant: the UPDATE has no WHERE clause *)
update_prayer_status_NoWhere(prayer_id, status) ==
    /\ "prayers" \in tables
    /\ prayers' = {[p EXCEPT !.status = status] : p \in prayers}
    /\ UNCHANGED <<tables, sqlite_sequence, members, attendance, issued>>

(* UPDATE prayers SET status = ? WHERE id = ?: rows with another id are kept *)
update_prayer_status(prayer_id, status) ==
    /\ "prayers" \in tables
    /\ prayers' = {IF p.id = prayer_id THEN [p EXCEPT !.status = status] ELSE p :
                      p \in prayers}
    /\ UNCHANGED <<tables, sqlite_sequence, members, attendance, issued>>
----------------------------------------------------------------------------
(* Inputs the operator can type or pick *)

Names == {"", "Alice"}
Roles == {"Membre"}
Requesters == {"", "Anonyme"}
Contents == {"", "Guerison"}

Tokens ==
    { <<>>,
      CONFIRMER,
      <<" ", "c", "o", "n", "f", "i", "r", "m", "e", "r", "\n">>,
      <<"C", "O", "N", " ", "F", "I", "R", "M", "E", "R">>,
      <<"C", "O", "N", "F", "I", "R", "M", "E", "R", "x">> }

----------------------------------------------------------------------------
(* init_db(): three CREATE TABLE IF NOT EXISTS statements, members first.
   It runs at the top of every script run and as the last call of a
   confirmed reset; a run that finds all three tables is a run of no-ops,
   which the page handlers below leave out. *)

InitDbStep(t) ==
    /\ pc.at = CreateStmt[t]
    /\ create_table_if_not_exists(t)
    /\ IF t = "members" THEN pc' = [pc EXCEPT !.at = CreateStmt["attendance"]]
       ELSE IF t = "attendance" THEN pc' = [pc EXCEPT !.at = CreateStmt["prayers"]]
       ELSE pc' = Idle
    /\ msg' = IF t = "prayers" /\ pc.run = "reset" THEN "Base reinitialisee." ELSE msg
    /\ UNCHANGED <<today, tod, submitted, metric, issued>>

(* Variant: the form does not check the name *)
MemberForm_NoValidation(name, phone, email, role) ==
    /\ pc = Idle
    /\ submitted' = [NoWidgets EXCEPT !.form = "add_member_form", !.name = name]
    /\ Room
    /\ add_member(name, phone, email, role)
    /\ msg' = "Membre ajoute."
    /\ UNCHANGED <<pc, today, tod, metric>>

(* Page "Membres": add_member_form *)
MemberForm(name, phone, email, role) ==
    /\ pc = Idle
    /\ submitted' = [NoWidgets EXCEPT !.form = "add_member_form", !.name = name]
    /\ IF name = ""
       THEN /\ msg' = "Le nom est requis."
            /\ UNCHANGED <<db, issued>>
       ELSE /\ Room
            /\ add_member(name, phone, email, role)
            /\ msg' = "Membre ajoute."
    /\ UNCHANGED <<pc, today, tod, metric>>

(* Page "Présences": attendance_form, offered once a member exists; the
   member is picked from the rows of members read in the same run *)
AttendanceForm(m, attend_date, present, note) ==
    /\ pc = Idle
    /\ members # {}
    /\ m \in members
    /\ Room
    /\ submitted' = [NoWidgets EXCEPT !.form = "attendance_form",
                                      !.member = m.id, !.present = present]
    /\ add_attendance(m.id, attend_date, present, note)
    /\ msg' = "Presence enregistree."
    /\ UNCHANGED <<pc, today, tod, metric>>

(* Page "Prière": prayer_form *)
PrayerForm(requester, content) ==
    /\ pc = Idle
    /\ submitted' = [NoWidgets EXCEPT !.form = "prayer_form",
                                      !.requester = requester, !.content = content]
    /\ IF content = ""
       THEN /\ msg' = "La demande doit contenir un texte."
            /\ UNCHANGED <<db, issued>>
       ELSE /\ Room
            /\ add_prayer(requester, content)
            /\ msg' = "Demande de priere ajoutee."
    /\ UNCHANGED <<pc, today, tod, metric>>

(* Page "Prière": the two buttons drawn for each row of prayers *)
(* Variant: the second button stores its label *)
ButtonStatus_Label == [repondu |-> "answered", en_priere |-> "en priere"]

ButtonStatus == [repondu |-> "answered", en_priere |-> "open"]

PrayerButton(row, button) ==
    /\ pc = Idle
    /\ row \in prayers
    /\ submitted' = [NoWidgets EXCEPT !.form = "prayer_button", !.prayer_id = row.id,
                                      !.status = ButtonStatus[button]]
    /\ update_prayer_status(row.id, ButtonStatus[button])
    /\ msg' = ""
    /\ UNCHANGED <<pc, today, tod, metric>>

(* The three DROP TABLE statements of a confirmed reset, each one a call of
   execute() with its own commit, then init_db() *)
(* Variant: the referenced table is dropped first *)
ResetOrder_MembersFirst == <<"members", "prayers", "attendance">>

ResetOrder == <<"attendance", "prayers", "members">>

(* Page "Paramètres / Export": the reset button and its confirmation text *)
(* Variant: the text is compared as typed *)
Confirmed_AsTyped(confirm) == confirm = CONFIRMER

Confirmed(confirm) == upper(strip(confirm)) = CONFIRMER

ResetButton(confirm) ==
    /\ pc = Idle
    /\ submitted' = [NoWidgets EXCEPT !.form = "reset", !.confirm = confirm]
    /\ IF Confirmed(confirm)
       THEN /\ pc' = [run |-> "reset", at |-> DropStmt[ResetOrder[1]]]
            /\ msg' = ""
       ELSE /\ pc' = pc
            /\ msg' = "Action non confirmee."
    /\ UNCHANGED <<db, today, tod, metric, issued>>

AfterDrop(k) ==
    IF k < Len(ResetOrder) THEN DropStmt[ResetOrder[k + 1]] ELSE CreateStmt["members"]

(* Variant: the three tables are dropped by one statement *)
ResetStep_AllAtOnce(k) ==
    /\ k = 1
    /\ pc = [run |-> "reset", at |-> DropStmt[ResetOrder[k]]]
    /\ tables' = {}
    /\ sqlite_sequence' = [t \in TableNames |-> 0]
    /\ members' = {} /\ attendance' = {} /\ prayers' = {}
    /\ pc' = [pc EXCEPT !.at = CreateStmt["members"]]
    /\ UNCHANGED <<today, tod, submitted, msg, metric, issued>>

ResetStep(k) ==
    /\ pc = [run |-> "reset", at |-> DropStmt[ResetOrder[k]]]
    /\ drop_table_if_exists(ResetOrder[k])
    /\ pc' = [pc EXCEPT !.at = AfterDrop(k)]
    /\ UNCHANGED <<today, tod, submitted, msg, metric, issued>>

(* The process stops between two statements (killed, or a statement raises):
   what is committed stays, and the next script run starts with init_db() *)
Interrupt ==
    /\ pc # Idle
    /\ pc' = [run |-> "startup", at |-> CreateStmt["members"]]
    /\ submitted' = NoWidgets
    /\ msg' = ""
    /\ UNCHANGED <<db, today, tod, metric, issued>>

(* A day passes *)
Tick ==
    /\ today < MaxDay
    /\ today' = today + 1
    /\ UNCHANGED <<pc, db, tod, submitted, msg, metric, issued>>

(* Time passes within the day: it is no longer midnight sharp *)
Later ==
    /\ tod = 0
    /\ tod' = 1
    /\ UNCHANGED <<pc, db, today, submitted, msg, metric, issued>>

(* A direct call of update_prayer_status(prayer_id, status) *)
CallUpdatePrayerStatus(prayer_id, status) ==
    /\ pc = Idle
    /\ submitted' = [NoWidgets EXCEPT !.form = "update_prayer_status",
                                      !.prayer_id = prayer_id, !.status = status]
    /\ update_prayer_status(prayer_id, status)
    /\ msg' = ""
    /\ UNCHANGED <<pc, today, tod, metric>>

----------------------------------------------------------------------------
(* Views *)

NULL == "<NULL>"

(* attendance a LEFT JOIN members m ON a.member_id = m.id *)
get_attendance_df ==
    {[id |-> a.id, member_id |-> a.member_id, member_name |-> m.name,
      attend_date |-> a.attend_date, present |-> a.present, note |-> a.note] :
        <<a, m>> \in {x \in attendance \X members : x[1].member_id = x[2].id}}
    \cup
    {[id |-> a.id, member_id |-> a.member_id, member_name |-> NULL,
      attend_date |-> a.attend_date, present |-> a.present, note |-> a.note] :
        a \in {x \in attendance : \A m \in members : m.id # x.member_id}}

(* Instants are counted in half days: a date is its midnight, and the clock
   reads midnight sharp (tod = 0) or later in the day (tod = 1) *)
Timestamp(d) == 2 * d

TimestampToday == 2 * today + tod

RECURSIVE SumPresent(_)
SumPresent(rows) ==
    IF rows = {} THEN 0
    ELSE LET r == CHOOSE x \in rows : TRUE IN r.present + SumPresent(rows \ {r})

(* f"{x:.0f}" of x = 100 * num / den: to the nearest integer, ties to even *)
FormatPercent(num, den) ==
    LET q == (100 * num) \div den
        r == (100 * num) % den
    IN  IF 2 * r > den \/ (2 * r = den /\ q % 2 = 1) THEN q + 1 ELSE q

(* "Taux de présence (30j)" of page "Vue d'ensemble" *)
last_30(df) ==
    {a \in df : Timestamp(a.attend_date) >= TimestampToday - Timestamp(WindowDays)}

AttendanceRate(df) ==
    IF Cardinality(df) > 0 /\ Cardinality(last_30(df)) > 0
    THEN [shown |-> "%",
          pct |-> FormatPercent(SumPresent(last_30(df)), Cardinality(last_30(df)))]
    ELSE [shown |-> "N/A", pct |-> 0]

OverviewPage ==
    /\ pc = Idle
    /\ TableNames \subseteq tables
    /\ submitted' = [NoWidgets EXCEPT !.form = "overview"]
    /\ metric' = AttendanceRate(get_attendance_df)
    /\ msg' = ""
    /\ UNCHANGED <<pc, db, today, tod, issued>>

----------------------------------------------------------------------------
(* The program: a fresh database file, then script runs *)

Init ==
    /\ pc = [run |-> "startup", at |-> CreateStmt["members"]]
    /\ tables = {}
    /\ sqlite_sequence = [t \in TableNames |-> 0]
    /\ members = {}
    /\ attendance = {}
    /\ prayers = {}
    /\ today = 0
    /\ tod = 0
    /\ submitted = NoWidgets
    /\ msg = ""
    /\ metric = [shown |-> "", pct |-> 0]
    /\ issued = [t \in TableNames |-> {}]

Next ==
    \/ \E t \in TableNames : InitDbStep(t)
    \/ \E name \in Names, role \in Roles : MemberForm(name, "", "", role)
    \/ \E m \in members, present \in BOOLEAN : AttendanceForm(m, today, present, "")
    \/ \E requester \in Requesters, content \in Contents : PrayerForm(requester, content)
    \/ \E row \in prayers, button \in DOMAIN ButtonStatus : PrayerButton(row, button)
    \/ \E confirm \in Tokens : ResetButton(confirm)
    \/ \E k \in 1..Len(ResetOrder) : ResetStep(k)
    \/ Interrupt
    \/ Tick

Spec == Init /\ [][Next]_vars

(* The data layer called directly: update_prayer_status with any id *)
CoreIds == 0..(MaxRows + 1)
CoreStatuses == {"open", "answered", "archived"}

NextCore ==
    \/ \E t \in TableNames : InitDbStep(t)
    \/ \E name \in Names, role \in Roles : MemberForm(name, "", "", role)
    \/ \E m \in members, present \in BOOLEAN : AttendanceForm(m, today, present, "")
    \/ \E requester \in Requesters, content \in Contents : PrayerForm(requester, content)
    \/ \E prayer_id \in CoreIds, status \in CoreStatuses :
          CallUpdatePrayerStatus(prayer_id, status)

SpecCore == Init /\ [][NextCore]_vars

(* The overview page, with attendance dated around the edges of the window *)
DateOffsets == {0 - WindowDays - 1, 0 - WindowDays, 1 - WindowDays, 0, 1}

NextRate ==
    \/ \E t \in TableNames : InitDbStep(t)
    \/ \E role \in Roles : members = {} /\ MemberForm("Alice", "", "", role)
    \/ \E m \in members, k \in DateOffsets, present \in BOOLEAN :
          AttendanceForm(m, today + k, present, "")
    \/ OverviewPage
    \/ Later
    \/ Tick

SpecRate == Init /\ [][NextRate]_vars
----------------------------------------------------------------------------
(* Properties *)

Drops == {DropStmt[t] : t \in TableNames}

(* The step is one of the DROP TABLE statements of a confirmed reset *)
IsResetDrop == pc.run = "reset" /\ pc.at \in Drops /\ pc'.run = "reset" /\ pc' # pc

NewIds(t) == Ids(Rows(t))' \ Ids(Rows(t))

TableState(t) == <<t \in tables, sqlite_sequence[t], Rows(t)>>

ChangedTables == {t \in TableNames : TableState(t)' # TableState(t)}

(* C1: every stored prayer request has status "open" or "answered", and the
   prayer request a submitted prayer form has just added has status "open". *)
C1_StatusOpenOrAnswered ==
    /\ \A p \in prayers : p.status \in {"open", "answered"}
    /\ msg = "Demande de priere ajoutee." =>
          \E p \in prayers : p.id = sqlite_sequence["prayers"] /\ p.status = "open"

(* C1 witness: a prayer has just been added while an earlier one is answered. *)
C1_Witness ==
    /\ msg = "Demande de priere ajoutee."
    /\ \E p \in prayers : p.status = "answered"

(* The confirmation texts that read CONFIRMER once trimmed, case ignored *)
AcceptedTokens ==
    { CONFIRMER,
      <<" ", "c", "o", "n", "f", "i", "r", "m", "e", "r", "\n">> }

(* C2: when a reset has run to its end, its token was one that reads CONFIRMER
   after trimming and ignoring case, and the three tables exist and are empty;
   with any other token the reset is declined and the database is exactly what
   it was before. *)
C2_ResetGated ==
    [][ (submitted'.form = "reset" /\ pc' = Idle) =>
          IF submitted'.confirm \in AcceptedTokens
          THEN /\ msg' = "Base reinitialisee."
               /\ tables' = TableNames
               /\ members' = {} /\ attendance' = {} /\ prayers' = {}
          ELSE /\ msg' = "Action non confirmee."
               /\ db' = db ]_vars

(* C2 witness: a reset confirmed with a padded lower-case token has emptied a
   database that held members. *)
C2_Witness ==
    /\ msg = "Base reinitialisee."
    /\ submitted.confirm # CONFIRMER
    /\ issued["members"] # {}
    /\ members = {}

(* C3 as claimed: every new id is greater than every id ever handed out for
   the same table, resets included. *)
C3_NeverReassigned ==
    [][ \A t \in TableNames : \A i \in NewIds(t) : \A j \in issued[t] : i > j ]_vars

(* C3 amended: while a table exists its ids are unique and every new id is
   greater than every id the table holds or has held since it was created. *)
UniqueIds == \A t \in TableNames : \A r, q \in Rows(t) : r.id = q.id => r = q

C3_IncreasingSinceCreated ==
    [][ /\ \A t \in TableNames : \A i \in NewIds(t) :
              /\ i > sqlite_sequence[t]
              /\ \A j \in Ids(Rows(t)) : i > j
        /\ UniqueIds' ]_vars

(* C3 witness: after a reset a table holds rows again, under ids that were
   handed out before. *)
C3_Witness ==
    \E t \in TableNames : Rows(t) # {} /\ Ids(Rows(t)) # issued[t]

(* C4 as claimed: no state has some table dropped while another table still
   holds rows. *)
C4_ResetAllOrNothing ==
    \A t, u \in TableNames : (t \notin tables /\ u \in tables) => Rows(u) = {}

(* C4 amended: every committed statement changes one table at most; a reset
   under way has dropped attendance, then prayers, then members, and then
   creates them again, one table per statement. *)
ResetProgress ==
    pc.run = "reset" =>
        tables = CASE pc.at = "drop_attendance" -> TableNames
                   [] pc.at = "drop_prayers" -> {"prayers", "members"}
                   [] pc.at = "drop_members" -> {"members"}
                   [] pc.at = "create_members" -> {}
                   [] pc.at = "create_attendance" -> {"members"}
                   [] pc.at = "create_prayers" -> {"members", "attendance"}

C4_OneTablePerStatement ==
    [][ Cardinality(ChangedTables) <= 1 /\ ResetProgress' ]_vars

(* C4 witness: a reset has dropped attendance, which had rows, while members
   still holds its rows. *)
C4_Witness ==
    /\ pc = [run |-> "reset", at |-> "drop_prayers"]
    /\ issued["attendance"] # {}
    /\ members # {}

(* C5: a member form with an empty name, and a prayer form with an empty
   content, leave the three tables as they were. *)
C5_EmptyFieldRejected ==
    [][ ( \/ submitted'.form = "add_member_form" /\ submitted'.name = ""
          \/ submitted'.form = "prayer_form" /\ submitted'.content = "" ) =>
          /\ <<members, attendance, prayers>>' = <<members, attendance, prayers>>
          /\ msg' \in {"Le nom est requis.", "La demande doit contenir un texte."} ]_vars

(* C5 witness: a prayer form without content was rejected on a database that
   holds a member and a prayer. *)
C5_Witness ==
    /\ msg = "La demande doit contenir un texte."
    /\ members # {}
    /\ prayers # {}

C7_UpdateOnlyStatus ==
    [][ submitted'.form = "update_prayer_status" =>
          /\ <<tables, sqlite_sequence, members, attendance>>' =
                <<tables, sqlite_sequence, members, attendance>>
          /\ Cardinality(prayers') = Cardinality(prayers)
          /\ \A p \in prayers :
                [p EXCEPT !.status = IF p.id = submitted'.prayer_id
                                     THEN submitted'.status ELSE @] \in prayers'
          /\ (submitted'.prayer_id \notin Ids(prayers) => prayers' = prayers) ]_vars

(* C7 witness: one of two prayers has been given a status, the other has
   kept its own. *)
C7_Witness ==
    /\ submitted.form = "update_prayer_status"
    /\ \E p, q \in prayers :
          /\ p.id = submitted.prayer_id
          /\ p.status = "answered"
          /\ q.id # p.id
          /\ q.status = "open"

(* C8: in every step but a DROP TABLE of a confirmed reset, every row stays,
   with its id and all its fields except the status of a prayer. *)
C8_OnlyResetRemoves ==
    [][ ~IsResetDrop =>
          /\ members \subseteq members'
          /\ attendance \subseteq attendance'
          /\ \A p \in prayers : \E q \in prayers' : q = [p EXCEPT !.status = q.status] ]_vars

(* C8 witness: init_db has run CREATE TABLE IF NOT EXISTS members on a table
   that holds rows and is about to create a missing table. *)
C8_Witness ==
    /\ pc = [run |-> "startup", at |-> "create_attendance"]
    /\ members # {}
    /\ "attendance" \notin tables

(* C9 as claimed: the rate shown is taken over the records dated from 30 days
   before now up to now, and is N/A when there is none. *)
ClaimedWindow(df) ==
    {a \in df : /\ TimestampToday - Timestamp(WindowDays) <= Timestamp(a.attend_date)
                /\ Timestamp(a.attend_date) <= TimestampToday}

ClaimedRate(df) ==
    IF ClaimedWindow(df) = {} THEN [shown |-> "N/A", pct |-> 0]
    ELSE [shown |-> "%",
          pct |-> FormatPercent(Cardinality({a \in ClaimedWindow(df) : a.present = 1}),
                                Cardinality(ClaimedWindow(df)))]

C9_RateOverTrailingWindow ==
    [][ (submitted'.form = "overview" /\ UNCHANGED <<db, today, tod>>) =>
          metric' = ClaimedRate(get_attendance_df) ]_vars

(* C10: every attendance record refers to a member that exists, so the join
   of the attendance view finds a name for every row. *)
C10_NoDanglingAttendance ==
    /\ \A a \in attendance : \E m \in members : m.id = a.member_id
    /\ \A r \in get_attendance_df : r.member_name # NULL

(* C10 witness: between the DROP statements of a reset, attendance is gone
   and the members it referred to are still there. *)
C10_Witness ==
    /\ pc = [run |-> "reset", at |-> "drop_members"]
    /\ issued["attendance"] # {}
    /\ members # {}
    /\ attendance = {}

====
